---------------------------- MODULE Spec2Model ----------------------------
(***************************************************************************)
(* A model of the parts-catalog application (src/db.py, src/app.py):       *)
(* the catalog store and its refresh, search_catalogs, the favourite /     *)
(* note annotations, the saved query templates, the part requests and the  *)
(* admin session, and the search, click and access logs.                   *)
(*                                                                         *)
(* Text is modelled as finite sequences of character codes (Unicode code   *)
(* points), so that stripping, lower-casing and SQL LIKE matching are      *)
(* computed, not assumed.  Python's None / SQL NULL is the one-element      *)
(* sequence <<0>> (NUL never occurs in text).                              *)
(***************************************************************************)
EXTENDS Integers, Sequences, FiniteSets, TLC

VARIABLES
    catalogs,       \* table "catalogs": a set of rows, each with a unique id
    search_logs,    \* table "search_logs": rows in insertion order
    saved_queries,  \* table "saved_queries": rows in insertion order
    pc,             \* per request context: the toggle_favorite call in progress
    trace,          \* history: the steps of the annotation calls, in order
    resp,           \* the outcome of the last completed operation
    part_requests,  \* table "part_requests": rows in insertion order
    session,        \* per browser: the cookies it holds (is_admin of the
                    \* signed session, client_id)
    access_logs,    \* table "access_logs": rows in insertion order
    click_logs      \* table "click_logs": rows in insertion order

\* the state of the request workflow, and the two logs beside search_logs
requestVars == <<part_requests, session>>
logVars == <<access_logs, click_logs>>

vars == <<catalogs, search_logs, saved_queries, pc, trace, resp,
          part_requests, session, access_logs, click_logs>>

----------------------------------------------------------------------------
(* Bounds of the model *)

MaxCat == 2        \* rows of the Excel source drawn for a store
MaxLog == 2        \* search log rows written in a behaviour
MaxSaved == 2      \* saved query rows written in a behaviour
MaxCalls == 2      \* annotation calls started in a behaviour

----------------------------------------------------------------------------
(* Request contexts that may run at the same time, and the browsers that   *)
(* send requests (each keeps its own session cookie)                       *)

Workers == {"w1", "w2"}

Browsers == {"b1", "b2"}

----------------------------------------------------------------------------
(* Text *)

None == <<0>>

Truthy(s) == s # None /\ s # <<>>

\* `x or ""` and `x or None`
OrEmpty(s) == IF Truthy(s) THEN s ELSE <<>>
OrNone(s) == IF Truthy(s) THEN s ELSE None

IsWs(c) == c \in {9, 10, 11, 12, 13, 32}

RECURSIVE LStrip(_)
LStrip(s) == IF s # <<>> /\ IsWs(Head(s)) THEN LStrip(Tail(s)) ELSE s

RECURSIVE RStrip(_)
RStrip(s) == IF s # <<>> /\ IsWs(s[Len(s)]) THEN RStrip(SubSeq(s, 1, Len(s) - 1)) ELSE s

\* str.strip()
Strip(s) == RStrip(LStrip(s))

\* str.lower(): Unicode-aware (ASCII and the Cyrillic capitals U+0410..U+042F)
PyLowerChar(c) == IF c \in 65..90 \/ c \in 1040..1071 THEN c + 32 ELSE c
PyLower(s) == [i \in 1..Len(s) |-> PyLowerChar(s[i])]

\* SQLite's built-in lower(): ASCII only; NULL stays NULL
SqlLowerChar(c) == IF c \in 65..90 THEN c + 32 ELSE c
SqlLower(s) == IF s = None THEN None ELSE [i \in 1..Len(s) |-> SqlLowerChar(s[i])]

\* SQLite's LIKE: % is any run of characters, _ any one character, ASCII
\* letters compare case-insensitively, everything else exactly.
RECURSIVE LikeFrom(_, _, _, _)
LikeFrom(p, s, i, j) ==
    IF i > Len(p) THEN j > Len(s)
    ELSE IF p[i] = 37
         THEN LikeFrom(p, s, i + 1, j) \/ (j <= Len(s) /\ LikeFrom(p, s, i, j + 1))
         ELSE /\ j <= Len(s)
              /\ (p[i] = 95 \/ SqlLowerChar(p[i]) = SqlLowerChar(s[j]))
              /\ LikeFrom(p, s, i + 1, j + 1)

\* `column LIKE pattern` used as a WHERE condition: NULL is not a match
Like(s, p) == s # None /\ LikeFrom(p, s, 1, 1)

\* bytewise comparison of two texts (SQLite's BINARY collation)
RECURSIVE StrLess(_, _)
StrLess(a, b) ==
    IF b = <<>> THEN FALSE
    ELSE IF a = <<>> THEN TRUE
    ELSE IF Head(a) # Head(b) THEN Head(a) < Head(b)
    ELSE StrLess(Tail(a), Tail(b))

\* ORDER BY column ASC: NULL sorts before every text
ColLeq(a, b) == a = None \/ (b # None /\ (a = b \/ StrLess(a, b)))

----------------------------------------------------------------------------
(* urllib.parse.urlsplit(url).netloc *)

SchemeChar(c) == c \in 97..122 \/ c \in 65..90 \/ c \in 48..57 \/ c \in {43, 45, 46}

\* the least index >= from of a character of cs in s, or Len(s) + 1
FirstIdx(s, cs, from) ==
    LET hits == {i \in from..Len(s) : s[i] \in cs}
    IN  IF hits = {} THEN Len(s) + 1 ELSE CHOOSE i \in hits : \A k \in hits : i <= k

AfterScheme(url) ==
    LET i == FirstIdx(url, {58}, 1)
    IN  IF /\ i > 1 /\ i <= Len(url)
           /\ (url[1] \in 97..122 \/ url[1] \in 65..90)
           /\ \A k \in 1..(i - 1) : SchemeChar(url[k])
        THEN SubSeq(url, i + 1, Len(url))
        ELSE url

Netloc(url) ==
    LET rest == AfterScheme(url)
    IN  IF Len(rest) >= 2 /\ rest[1] = 47 /\ rest[2] = 47
        THEN SubSeq(rest, 3, FirstIdx(rest, {47, 63, 35}, 3) - 1)
        ELSE <<>>

----------------------------------------------------------------------------
(* The Excel source and the catalog rows built from it *)

\* One row of the Excel sheet: the cells the import reads
ExcelRow(g, m, t, d, u) ==
    [group |-> g, models |-> m, type |-> t, description |-> d, url |-> u,
     status |-> None, source |-> None]

\* The rows a source sheet is drawn from:
\*   "G1" | "a" | "t1" | "b"   | http://x.by/u
\*   "G1" | "a" | "t0" |       | http://y.ru/v
\*   "G2" | "A" | "t1" | "b a" | http://x.by/w
\*        | "М" |      |       | http://z.com/      (Cyrillic capital em)
RowPool ==
    { ExcelRow(<<71,49>>, <<97>>, <<116,49>>, <<98>>,
               <<104,116,116,112,58,47,47,120,46,98,121,47,117>>),
      ExcelRow(<<71,49>>, <<97>>, <<116,48>>, None,
               <<104,116,116,112,58,47,47,121,46,114,117,47,118>>),
      ExcelRow(<<71,50>>, <<65>>, <<116,49>>, <<98,32,97>>,
               <<104,116,116,112,58,47,47,120,46,98,121,47,119>>),
      ExcelRow(None, <<1052>>, None, None,
               <<104,116,116,112,58,47,47,122,46,99,111,109,47>>) }

\* an empty cell of the sheet as pandas reads it: float NaN (None is the
\* cell of a column the sheet does not have)
NaN == <<-1>>

\* str(cell): "None" for None, "nan" for NaN, the text itself otherwise
PyStr(v) ==
    IF v = None THEN <<78,111,110,101>> ELSE IF v = NaN THEN <<110,97,110>> ELSE v

\* str(cell or "").strip() or None
CellText(v) == OrNone(Strip(PyStr(OrEmpty(v))))

\* Catalog(...) as refresh_catalogs_from_excel builds it from a row, with the
\* column defaults (is_favorite False, engineer_note NULL) and its row id
Catalog(row, id) ==
    LET url == Strip(PyStr(row.url))
    IN  [id |-> id,
         group_name |-> CellText(row.group),
         models |-> CellText(row.models),
         type |-> CellText(row.type),
         description |-> CellText(row.description),
         url |-> url,
         domain |-> OrNone(Netloc(url)),
         status |-> CellText(row.status),
         source_type |-> CellText(row.source),
         is_favorite |-> FALSE,
         engineer_note |-> None]

\* the rows of a sheet that carry a link, in sheet order
RECURSIVE WithUrl(_)
WithUrl(rows) ==
    IF rows = <<>> THEN <<>>
    ELSE IF Strip(PyStr(Head(rows).url)) = <<>> THEN WithUrl(Tail(rows))
    ELSE <<Head(rows)>> \o WithUrl(Tail(rows))

\* the table after delete-all and bulk insert: row ids restart at 1
Refreshed(rows) ==
    LET kept == WithUrl(rows)
    IN  {Catalog(kept[i], i) : i \in 1..Len(kept)}

Sheets == UNION {[1..n -> RowPool] : n \in 0..MaxCat}

\* session.get(Catalog, catalog_id): the set holding the row, or empty
GetCatalog(cat, id) == {c \in cat : c.id = id}

----------------------------------------------------------------------------
(* search_catalogs *)

\* or_(lower(models) LIKE q, lower(description) LIKE q, lower(group_name) LIKE q)
QueryCond(c, query) ==
    LET q == <<37>> \o PyLower(Strip(query)) \o <<37>>
    IN  \/ Like(SqlLower(c.models), q)
        \/ Like(SqlLower(c.description), q)
        \/ Like(SqlLower(c.group_name), q)

ModelCond(c, model_fragment) ==
    Like(SqlLower(c.models), <<37>> \o PyLower(Strip(model_fragment)) \o <<37>>)

GroupCond(c, group) == c.group_name = group

TypeCond(c, catalog_type) == c.type = catalog_type

CountryCond(c, country_filter) ==
    Like(SqlLower(c.domain), <<37, 46>> \o PyLower(Strip(country_filter)))

FavoriteCond(c) == c.is_favorite

\* and_(*conditions): every condition whose filter is supplied
Matches(c, f) ==
    /\ Truthy(f.query) => QueryCond(c, f.query)
    /\ Truthy(f.model_fragment) => ModelCond(c, f.model_fragment)
    /\ Truthy(f.group) => GroupCond(c, f.group)
    /\ Truthy(f.catalog_type) => TypeCond(c, f.catalog_type)
    /\ Truthy(f.country_filter) => CountryCond(c, f.country_filter)
    /\ f.favorites_only => FavoriteCond(c)

\* ORDER BY is_favorite DESC, group_name, models (a mutant drops the first key)
OrderByNoFavorite(a, b) ==
    \/ a.group_name # b.group_name /\ ColLeq(a.group_name, b.group_name)
    \/ a.group_name = b.group_name /\ ColLeq(a.models, b.models)

OrderBy(a, b) ==
    \/ a.is_favorite /\ ~b.is_favorite
    \/ /\ a.is_favorite = b.is_favorite
       /\ \/ a.group_name # b.group_name /\ ColLeq(a.group_name, b.group_name)
          \/ a.group_name = b.group_name /\ ColLeq(a.models, b.models)

\* the lists the statement may return: the matching rows, each once, in an
\* order that respects ORDER BY; rows equal on the sort keys come in any order
search_catalogs(cat, f) ==
    LET hit == {c \in cat : Matches(c, f)}
        n == Cardinality(hit)
    IN  {s \in [1..n -> hit] :
            /\ \A i, j \in 1..n : i # j => s[i] # s[j]
            /\ \A i, j \in 1..n : i < j => OrderBy(s[i], s[j])}

Filters(g, m, t, q, c, fav) ==
    [group |-> g, model_fragment |-> m, catalog_type |-> t, query |-> q,
     country_filter |-> c, favorites_only |-> fav]

\* the free-text queries tried: "a", "u", "g1", "a b", "b a"
QueryPool == {<<97>>, <<117>>, <<103,49>>, <<97,32,98>>, <<98,32,97>>}

NoFilters == Filters(None, None, None, None, None, FALSE)

\* only `query` supplied
QueryOnly == {[NoFilters EXCEPT !.query = q] : q \in QueryPool}

\* every combination of the other filters: group "G1", model fragment "a",
\* catalog type "t1", country "BY", favourites only
FacetInputs ==
    {Filters(g, m, t, None, c, fav) :
        g \in {None, <<71,49>>},
        m \in {None, <<97>>},
        t \in {None, <<116,49>>},
        c \in {None, <<66,89>>},
        fav \in BOOLEAN}

\* a free-text query together with one other filter, and a Cyrillic model
\* fragment (small em)
MixedInputs ==
    { [NoFilters EXCEPT !.query = <<97,32,98>>, !.group = <<71,49>>],
      [NoFilters EXCEPT !.query = <<97>>, !.model_fragment = <<97>>],
      [NoFilters EXCEPT !.query = <<97>>, !.catalog_type = <<116,49>>],
      [NoFilters EXCEPT !.query = <<97>>, !.country_filter = <<66,89>>],
      [NoFilters EXCEPT !.query = <<97>>, !.favorites_only = TRUE],
      [NoFilters EXCEPT !.model_fragment = <<1084>>] }

\* the arguments search_catalogs is called with
SearchInputs == QueryOnly \cup FacetInputs \cup MixedInputs

----------------------------------------------------------------------------
(* Specification SpecSearch: search_catalogs called on any store *)

InitRest ==
    /\ search_logs = <<>>
    /\ saved_queries = <<>>
    /\ pc = [w \in Workers |-> [at |-> "idle"]]
    /\ trace = <<>>
    /\ resp = [op |-> "none"]
    /\ part_requests = <<>>
    /\ session = [b \in Browsers |-> [is_admin |-> FALSE, client_id |-> <<>>]]
    /\ access_logs = <<>>
    /\ click_logs = <<>>

\* a store as a refresh followed by favourite toggles leaves it
Stores ==
    {{[c EXCEPT !.is_favorite = (c.id \in favs)] : c \in Refreshed(rows)} :
        rows \in Sheets, favs \in SUBSET (1..MaxCat)}

InitSearch ==
    /\ catalogs \in Stores
    /\ InitRest

SearchCatalogs ==
    \E f \in SearchInputs : \E r \in search_catalogs(catalogs, f) :
        /\ resp' = [op |-> "search_catalogs", filters |-> f, records |-> r]
        /\ UNCHANGED <<catalogs, search_logs, saved_queries, pc, trace, requestVars, logVars>>

NextSearch == SearchCatalogs

SpecSearch == InitSearch /\ [][NextSearch]_vars

----------------------------------------------------------------------------
(* What the claims about search speak of *)

Range(s) == {s[i] : i \in 1..Len(s)}

\* the whitespace-separated terms of a query, in order
RECURSIVE TermsOf(_)
TermsOf(q) ==
    LET t == LStrip(q)
        k == FirstIdx(t, {9, 10, 11, 12, 13, 32}, 1)
    IN  IF t = <<>> THEN <<>>
        ELSE <<SubSeq(t, 1, k - 1)>> \o TermsOf(SubSeq(t, k, Len(t)))

\* t occurs in s, letter case ignored
ContainsNoCase(s, t) ==
    /\ s # None
    /\ \E i \in 0..(Len(s) - Len(t)) :
          PyLower(SubSeq(s, i + 1, i + Len(t))) = PyLower(t)

\* the searchable fields a catalog row has: model list, description, URL
\* (the rows carry no catalog number and no part-number list)
SearchableFields(c) == {c.models, c.description, c.url}

TermMatches(c, t) == \E fld \in SearchableFields(c) : ContainsNoCase(fld, t)

\* AND across the terms, OR across the fields
FreeTextMatches(c, q) == \A t \in Range(TermsOf(q)) : TermMatches(c, t)

OnlyQuery(f) == Truthy(f.query) /\ [f EXCEPT !.query = None] = NoFilters

SameTerms(q1, q2) ==
    LET a == TermsOf(q1)
        b == TermsOf(q2)
    IN  /\ Len(a) = Len(b)
        /\ \A x \in Range(a) \cup Range(b) :
              Cardinality({i \in 1..Len(a) : a[i] = x})
                  = Cardinality({i \in 1..Len(b) : b[i] = x})

\* the country classification of a row: the upper-cased last label of its
\* domain (_extract_country_code_from_domain, get_catalog_filters)
PyUpperChar(c) == IF c \in 97..122 \/ c \in 1072..1103 THEN c - 32 ELSE c
PyUpper(s) == [i \in 1..Len(s) |-> PyUpperChar(s[i])]

CountryOf(c) ==
    LET d == c.domain
        dots == IF d = None THEN {} ELSE {i \in 1..Len(d) : d[i] = 46}
        last == CHOOSE i \in dots : \A k \in dots : k <= i
    IN  IF dots = {} \/ last = Len(d) THEN None
        ELSE PyUpper(SubSeq(d, last + 1, Len(d)))

\* C1 (as claimed): a search with only a free-text query returns exactly the
\* rows in which every term of the query is a case-insensitive substring of
\* at least one of the searchable fields.
C1_SearchIsAndOfTermsOrOfFields ==
    (resp.op = "search_catalogs" /\ OnlyQuery(resp.filters)
        /\ TermsOf(resp.filters.query) # <<>>)
    => Range(resp.records) = {c \in catalogs : FreeTextMatches(c, resp.filters.query)}

\* C2 (as claimed): a query whose terms are the terms of the query just run,
\* in another order, returns the same set of rows.
C2_TermOrderIrrelevant ==
    (resp.op = "search_catalogs" /\ OnlyQuery(resp.filters))
    => \A q2 \in QueryPool :
          SameTerms(q2, resp.filters.query)
          => \A r2 \in search_catalogs(catalogs, [NoFilters EXCEPT !.query = q2]) :
                Range(r2) = Range(resp.records)

\* ascending by one column, rows without a value first
AscBy(x, y) == x = None \/ (y # None /\ (x = y \/ StrLess(x, y)))

C4_FiltersCombineWithAnd ==
    resp.op = "search_catalogs"
    => LET f == resp.filters
       IN  Range(resp.records) =
              {c \in catalogs :
                  /\ Truthy(f.group) => c.group_name = f.group
                  /\ Truthy(f.catalog_type) => c.type = f.catalog_type
                  /\ Truthy(f.country_filter) => CountryOf(c) = f.country_filter
                  /\ Truthy(f.model_fragment) => ContainsNoCase(c.models, f.model_fragment)
                  /\ f.favorites_only => c.is_favorite
                  /\ Truthy(f.query) => FreeTextMatches(c, f.query)}

----------------------------------------------------------------------------
(* Specification SpecIndex: the catalog page, GET /  (search + search log) *)

\* the query-string arguments of a request, as sent
Args(g, m, t, q, c, fav) ==
    [group |-> g, model |-> m, catalog_type |-> t, query |-> q, country |-> c,
     favorites_only |-> fav]

NoArgs == Args(<<>>, <<>>, <<>>, <<>>, <<>>, <<>>)

\* the requests tried: nothing filled in; exactly one of group "G1",
\* model "a", catalog type "t1", query " a " or "a b", country "BY" filled
\* in; only the favourites box ticked ("1"); blanks only in the query
IndexArgs ==
    { NoArgs,
      [NoArgs EXCEPT !.group = <<71,49>>],
      [NoArgs EXCEPT !.model = <<97>>],
      [NoArgs EXCEPT !.catalog_type = <<116,49>>],
      [NoArgs EXCEPT !.query = <<32,97,32>>],
      [NoArgs EXCEPT !.query = <<97,32,98>>],
      [NoArgs EXCEPT !.country = <<66,89>>],
      [NoArgs EXCEPT !.favorites_only = <<49>>],
      [NoArgs EXCEPT !.query = <<32,32>>] }

\* _current_filters_from_request
CurrentFilters(a) ==
    [group |-> Strip(a.group),
     model |-> Strip(a.model),
     catalog_type |-> Strip(a.catalog_type),
     query |-> Strip(a.query),
     country |-> Strip(a.country),
     favorites_only |-> (a.favorites_only = <<49>>)]

\* the SearchLog row log_search builds from the filters of the request
SearchLogRow(filters) ==
    [query |-> OrNone(Strip(OrEmpty(filters.query))),
     group_filter |-> OrNone(Strip(OrEmpty(filters.group))),
     type_filter |-> OrNone(Strip(OrEmpty(filters.catalog_type))),
     has_favorite |-> filters.favorites_only,
     results_count |-> 0]

\* log_search(filters): always adds the row; committed is FALSE when the
\* store refuses the write (the exception index() catches and prints)
log_search(logs, filters, committed) ==
    IF committed THEN Append(logs, SearchLogRow(filters)) ELSE logs

\* `try: <log write> except Exception as e: print(...)`: whether an exception
\* raised by the log write leaves the statement (a mutant has no except)
PropagatesUncaught(raised) == raised

Propagates(raised) == FALSE

\* index(): search_catalogs on the filters of the request, then log_search.
\* (The page also shows the filter options, recent searches and templates,
\* which it only reads.)
Index ==
    /\ Len(search_logs) < MaxLog
    /\ \E a \in IndexArgs, committed \in BOOLEAN :
          LET filters == CurrentFilters(a)
              f == Filters(OrNone(filters.group), OrNone(filters.model),
                           OrNone(filters.catalog_type), OrNone(filters.query),
                           OrNone(filters.country), filters.favorites_only)
          IN  \E r \in search_catalogs(catalogs, f) :
                 /\ search_logs' = log_search(search_logs, filters, committed)
                 /\ resp' = IF Propagates(~committed)
                            THEN [op |-> "index", filters |-> filters,
                                  records |-> <<>>, log_committed |-> committed,
                                  status |-> 500]
                            ELSE [op |-> "index", filters |-> filters,
                                  records |-> r, log_committed |-> committed,
                                  status |-> 200]
    /\ UNCHANGED <<catalogs, saved_queries, pc, trace, requestVars, logVars>>

\* the state after start-up: init_db() and import_from_excel() of the sheet
InitApp ==
    /\ catalogs \in {Refreshed(rows) : rows \in Sheets}
    /\ InitRest

NextIndex == Index

SpecIndex == InitApp /\ [][NextIndex]_vars

\* at least one of group, model fragment, catalog type, country, query is
\* filled in
Meaningful(filters) ==
    \/ filters.group # <<>>
    \/ filters.model # <<>>
    \/ filters.catalog_type # <<>>
    \/ filters.country # <<>>
    \/ filters.query # <<>>

\* C5 (as claimed): a search request whose log write goes through appends
\* exactly one SearchLog row when one of group, model fragment, catalog type,
\* country or query is non-empty, and appends none when all of them are empty.
C5_OnlyMeaningfulSearchesLogged ==
    [][(resp'.op = "index" /\ resp'.log_committed)
        => Len(search_logs') = Len(search_logs)
              + (IF Meaningful(resp'.filters) THEN 1 ELSE 0)]_vars

----------------------------------------------------------------------------
(* Specification SpecAnnot: favourite toggles and engineer notes *)

\* the sheet imported at start-up: the first rows of this list
SheetOrder ==
    << ExcelRow(<<71,49>>, <<97>>, <<116,49>>, <<98>>,
                <<104,116,116,112,58,47,47,120,46,98,121,47,117>>),
       ExcelRow(<<71,50>>, <<65>>, <<116,49>>, <<98,32,97>>,
                <<104,116,116,112,58,47,47,120,46,98,121,47,119>>),
       ExcelRow(<<71,49>>, <<97>>, <<116,48>>, None,
                <<104,116,116,112,58,47,47,121,46,114,117,47,118>>),
       ExcelRow(None, <<1052>>, None, None,
                <<104,116,116,112,58,47,47,122,46,99,111,109,47>>) >>

InitAnnot ==
    /\ \E n \in 0..MaxCat :
          n <= Len(SheetOrder) /\ catalogs = Refreshed(SubSeq(SheetOrder, 1, n))
    /\ InitRest

\* the catalog ids requests name: those of the rows, and one that is unused
CatalogIds == 1..(MaxCat + 1)

\* the note texts submitted: "", "x", " x "
NoteTexts == {<<>>, <<120>>, <<32,120,32>>}

Event(w, id, step, val) == [w |-> w, id |-> id, step |-> step, val |-> val]

\* annotation calls started so far
CallsStarted ==
    Cardinality({i \in 1..Len(trace) : trace[i].step \in {"get", "miss", "note"}})

\* obj.is_favorite = not obj.is_favorite (a mutant sets the flag instead)
FlipStuck(v) == TRUE

Flip(v) == ~v

\* UPDATE catalogs SET is_favorite = v WHERE id = id (a mutant leaves out
\* the WHERE clause)
SetFavoriteAll(cat, id, v) == {[c EXCEPT !.is_favorite = v] : c \in cat}

SetFavorite(cat, id, v) ==
    {IF c.id = id THEN [c EXCEPT !.is_favorite = v] ELSE c : c \in cat}

\* UPDATE catalogs SET engineer_note = note WHERE id = id
SetNote(cat, id, note) ==
    {IF c.id = id THEN [c EXCEPT !.engineer_note = note] ELSE c : c \in cat}

\* toggle_favorite, first statement: obj = session.get(Catalog, catalog_id);
\* a miss returns None at once
ToggleGet(w) ==
    /\ pc[w].at = "idle"
    /\ CallsStarted < MaxCalls
    /\ \E id \in CatalogIds :
          LET found == GetCatalog(catalogs, id)
          IN  IF found = {}
              THEN /\ pc' = pc
                   /\ trace' = Append(trace, Event(w, id, "miss", FALSE))
                   /\ resp' = [op |-> "toggle_favorite", id |-> id, found |-> FALSE]
              ELSE LET obj == CHOOSE c \in found : TRUE
                   IN  /\ pc' = [pc EXCEPT ![w] = [at |-> "loaded", id |-> id,
                                                   is_favorite |-> obj.is_favorite]]
                       /\ trace' = Append(trace, Event(w, id, "get", obj.is_favorite))
                       /\ resp' = resp
    /\ UNCHANGED <<catalogs, search_logs, saved_queries, requestVars, logVars>>

\* toggle_favorite, second step: the flag of the loaded object is negated and
\* session.commit() writes it to the row
ToggleCommit(w) ==
    /\ pc[w].at = "loaded"
    /\ LET v == Flip(pc[w].is_favorite)
       IN  /\ catalogs' = SetFavorite(catalogs, pc[w].id, v)
           /\ trace' = Append(trace, Event(w, pc[w].id, "commit", v))
           /\ pc' = [pc EXCEPT ![w] = [at |-> "committed", id |-> pc[w].id]]
    /\ UNCHANGED <<search_logs, saved_queries, resp, requestVars, logVars>>

\* toggle_favorite, last step: return obj.is_favorite; the commit expired the
\* object, so the attribute is loaded from the row again
ToggleReturn(w) ==
    /\ pc[w].at = "committed"
    /\ LET obj == CHOOSE c \in GetCatalog(catalogs, pc[w].id) : TRUE
       IN  /\ trace' = Append(trace, Event(w, pc[w].id, "return", obj.is_favorite))
           /\ resp' = [op |-> "toggle_favorite", id |-> pc[w].id, found |-> TRUE,
                       result |-> obj.is_favorite]
    /\ pc' = [pc EXCEPT ![w] = [at |-> "idle"]]
    /\ UNCHANGED <<catalogs, search_logs, saved_queries, requestVars, logVars>>

\* update_notes(catalog_id, note)
update_notes(cat, id, note) ==
    IF GetCatalog(cat, id) = {} THEN [ok |-> FALSE, catalogs |-> cat]
    ELSE [ok |-> TRUE, catalogs |-> SetNote(cat, id, note)]

\* edit_note(), POST: the submitted text goes to update_engineer_note as sent
EditNote(w) ==
    /\ pc[w].at = "idle"
    /\ CallsStarted < MaxCalls
    /\ \E id \in CatalogIds, note \in NoteTexts :
          LET r == update_notes(catalogs, id, note)
          IN  /\ catalogs' = r.catalogs
              /\ trace' = Append(trace, Event(w, id, "note", FALSE))
              /\ resp' = [op |-> "edit_note", id |-> id, note |-> note, ok |-> r.ok]
    /\ UNCHANGED <<search_logs, saved_queries, pc, requestVars, logVars>>

NextAnnot ==
    \E w \in Workers :
        ToggleGet(w) \/ ToggleCommit(w) \/ ToggleReturn(w) \/ EditNote(w)

SpecAnnot == InitAnnot /\ [][NextAnnot]_vars

\* the steps of the history that name catalog id `id`, in order
OnId(id) == SelectSeq(trace, LAMBDA e : e.id = id)

\* T[k], T[k+1], T[k+2] are the three steps of one toggle call
IsToggleCall(T, k) ==
    /\ k + 2 <= Len(T)
    /\ T[k].step = "get" /\ T[k + 1].step = "commit" /\ T[k + 2].step = "return"
    /\ T[k + 1].w = T[k].w /\ T[k + 2].w = T[k].w

StoredFavorite(id) == (CHOOSE c \in GetCatalog(catalogs, id) : TRUE).is_favorite

\* C6: two successive toggle calls on an existing id, with no other step on
\* that entry between the start of the first and the return of the second,
\* return alternating values, each the flag the call stored (the flag the
\* next call finds), and the flag after the second call is the flag before
\* the first.
C6_TwoTogglesAlternateAndRestore ==
    \A id \in CatalogIds :
        LET T == OnId(id)
        IN  \A k \in 1..Len(T) :
               (IsToggleCall(T, k) /\ IsToggleCall(T, k + 3))
               => /\ T[k + 2].val # T[k + 5].val
                  /\ T[k + 2].val = T[k + 1].val
                  /\ T[k + 2].val = T[k + 3].val
                  /\ T[k + 5].val = T[k + 4].val
                  /\ T[k + 4].val = T[k].val
                  /\ Len(T) = k + 5 => StoredFavorite(id) = T[k].val

\* C6 witness: two toggle calls on one id have run one after the other.
C6_Witness ==
    \E id \in CatalogIds :
        /\ IsToggleCall(OnId(id), 1) /\ IsToggleCall(OnId(id), 4)
        /\ StoredFavorite(id) = OnId(id)[1].val

\* the history on `id` is exactly two complete toggle calls, by different
\* request contexts, the second begun before the first returned
TwoConcurrentToggles(T) ==
    /\ Len(T) = 6
    /\ \A i \in 1..6 : T[i].step \in {"get", "commit", "return"}
    /\ \E w1, w2 \in Workers :
          /\ w1 # w2
          /\ \A w \in {w1, w2} :
                SelectSeq(T, LAMBDA e : e.w = w)
                    \in {<<Event(w, T[1].id, "get", a), Event(w, T[1].id, "commit", b),
                           Event(w, T[1].id, "return", c)>> : a, b, c \in BOOLEAN}
    /\ ~(IsToggleCall(T, 1) /\ IsToggleCall(T, 4))

ReturnsOf(T) == SelectSeq(T, LAMBDA e : e.step = "return")

\* C7 (as claimed): when two toggle calls on one existing id run at the same
\* time and both return, no flip is lost: the stored flag is back at its
\* initial value and the two calls return different values.
C7_ConcurrentTogglesLoseNoUpdate ==
    \A id \in CatalogIds :
        LET T == OnId(id)
        IN  TwoConcurrentToggles(T)
            => /\ StoredFavorite(id) = T[1].val
               /\ ReturnsOf(T)[1].val # ReturnsOf(T)[2].val

NoteOf(cat, id) == (CHOOSE c \in GetCatalog(cat, id) : TRUE).engineer_note

\* C8 (as claimed): setNote on an existing id reports success and leaves the
\* stored note equal to the text without its leading and trailing
\* whitespace; on an id that does not exist it reports failure and no
\* catalog row changes.
C8_NoteStoredTrimmed ==
    [][resp'.op = "edit_note"
        => IF GetCatalog(catalogs, resp'.id) # {}
           THEN resp'.ok /\ NoteOf(catalogs', resp'.id) = Strip(resp'.note)
           ELSE ~resp'.ok /\ catalogs' = catalogs]_vars

----------------------------------------------------------------------------
(* Specification SpecTemplates: saved query templates *)

\* the titles submitted: "", " ", "T"
TitlePool == {<<>>, <<32>>, <<84>>}

\* the filter sets submitted with a template: nothing; one of group "G1",
\* model "a", catalog type "t1", query "a b", country "BY"; group and model
TemplateArgs ==
    { NoArgs,
      [NoArgs EXCEPT !.group = <<71,49>>],
      [NoArgs EXCEPT !.model = <<97>>],
      [NoArgs EXCEPT !.catalog_type = <<116,49>>],
      [NoArgs EXCEPT !.query = <<97,32,98>>],
      [NoArgs EXCEPT !.country = <<66,89>>],
      [NoArgs EXCEPT !.group = <<71,49>>, !.model = <<97>>] }

\* save_query(title, query, group_filter, type_filter) of db.py: the row it
\* inserts, with the next row id
SavedQuery(sq, title, query, group_filter, type_filter) ==
    [id |-> Len(sq) + 1, title |-> title, query |-> query,
     group_filter |-> group_filter, type_filter |-> type_filter]

\* create_saved_query(title, filters): None when query, group and catalog
\* type are all empty, else the inserted row
create_saved_query(sq, title, filters) ==
    LET query == Strip(OrEmpty(filters.query))
        group_filter == Strip(OrEmpty(filters.group))
        type_filter == Strip(OrEmpty(filters.catalog_type))
    IN  IF ~(Truthy(query) \/ Truthy(group_filter) \/ Truthy(type_filter))
        THEN [saved |-> FALSE, saved_queries |-> sq]
        ELSE [saved |-> TRUE,
              saved_queries |->
                  Append(sq, SavedQuery(sq, title, OrNone(query), OrNone(group_filter),
                                        OrNone(type_filter)))]

\* the history step of a template save: the id given and the filters handed in
SaveEvent(r, sq, filters) ==
    IF r.saved THEN <<[step |-> "save", id |-> Len(sq) + 1, filters |-> filters]>>
    ELSE <<>>

\* save_query() of app.py, POST /save_query
SaveQuery ==
    /\ Len(saved_queries) < MaxSaved
    /\ \E a \in TemplateArgs, rawTitle \in TitlePool :
          LET filters == CurrentFilters(a)
              title == Strip(rawTitle)
              r == IF ~Truthy(title) THEN [saved |-> FALSE, saved_queries |-> saved_queries]
                   ELSE create_saved_query(saved_queries, title, filters)
          IN  /\ saved_queries' = r.saved_queries
              /\ trace' = trace \o SaveEvent(r, saved_queries, filters)
              /\ resp' = [op |-> "save_query", title |-> rawTitle, filters |-> filters,
                          saved |-> r.saved]
    /\ UNCHANGED <<catalogs, search_logs, pc, requestVars, logVars>>

\* create_saved_query called by itself
CreateSavedQuery ==
    /\ Len(saved_queries) < MaxSaved
    /\ \E a \in TemplateArgs, title \in TitlePool :
          LET filters == CurrentFilters(a)
              r == create_saved_query(saved_queries, title, filters)
          IN  /\ saved_queries' = r.saved_queries
              /\ trace' = trace \o SaveEvent(r, saved_queries, filters)
              /\ resp' = [op |-> "create_saved_query", title |-> title,
                          filters |-> filters, saved |-> r.saved]
    /\ UNCHANGED <<catalogs, search_logs, pc, requestVars, logVars>>

\* the read-only properties of SavedQuery that use_query reads
SavedQuery_group_name(obj) == OrEmpty(obj.group_filter)
SavedQuery_model_fragment(obj) == <<>>
SavedQuery_catalog_type(obj) == OrEmpty(obj.type_filter)
SavedQuery_country(obj) == <<>>

\* get_saved_query_by_id
GetSavedQuery(sq, id) == {sq[i] : i \in {k \in 1..Len(sq) : sq[k].id = id}}

\* use_query(): the filters the redirect to the catalog page carries
UseQuery ==
    /\ \E id \in 1..(MaxSaved + 1) :
          LET found == GetSavedQuery(saved_queries, id)
          IN  IF found = {}
              THEN resp' = [op |-> "use_query", id |-> id, found |-> FALSE]
              ELSE LET obj == CHOOSE o \in found : TRUE
                   IN  resp' = [op |-> "use_query", id |-> id, found |-> TRUE,
                                group |-> OrEmpty(SavedQuery_group_name(obj)),
                                model |-> OrEmpty(SavedQuery_model_fragment(obj)),
                                catalog_type |-> OrEmpty(SavedQuery_catalog_type(obj)),
                                query |-> OrEmpty(obj.query),
                                country |-> OrEmpty(SavedQuery_country(obj))]
    /\ UNCHANGED <<catalogs, search_logs, saved_queries, pc, trace, requestVars, logVars>>

\* start-up with no sheet to import: the catalog is empty
InitTemplates ==
    /\ catalogs = {}
    /\ InitRest

NextTemplates == SaveQuery \/ CreateSavedQuery \/ UseQuery

SpecTemplates == InitTemplates /\ [][NextTemplates]_vars

\* C9 (as claimed): a template save, through the /save_query handler or
\* through create_saved_query itself, is rejected and stores no row when the
\* title is empty or blank, and when group, model fragment, catalog type,
\* country and query are all empty.
C9_EmptyTitleOrFiltersRejected ==
    [][(resp'.op \in {"save_query", "create_saved_query"}
          /\ (Strip(resp'.title) = <<>> \/ ~Meaningful(resp'.filters)))
        => (~resp'.saved /\ saved_queries' = saved_queries)]_vars

\* C10 (as claimed): a save with a non-empty title and at least one non-empty
\* field succeeds, and replaying a saved template through use_query yields
\* the five filter values it was saved with.
C10_TemplateRoundTrip ==
    [][/\ (resp'.op \in {"save_query", "create_saved_query"}
             /\ Strip(resp'.title) # <<>> /\ Meaningful(resp'.filters))
          => (resp'.saved /\ Len(saved_queries') = Len(saved_queries) + 1)
       /\ (resp'.op = "use_query" /\ resp'.found)
          => \A i \in 1..Len(trace) :
                (trace[i].step = "save" /\ trace[i].id = resp'.id)
                => /\ resp'.group = trace[i].filters.group
                   /\ resp'.model = trace[i].filters.model
                   /\ resp'.catalog_type = trace[i].filters.catalog_type
                   /\ resp'.query = trace[i].filters.query
                   /\ resp'.country = trace[i].filters.country]_vars

----------------------------------------------------------------------------
(* Specification SpecRequests: part requests and the admin session *)

MaxReq == 2        \* part request rows written in a behaviour

\* "new", "in_work", "ordered", "received", "cancelled"
StatusNew == <<110,101,119>>
StatusInWork == <<105,110,95,119,111,114,107>>
StatusOrdered == <<111,114,100,101,114,101,100>>
StatusReceived == <<114,101,99,101,105,118,101,100>>
StatusCancelled == <<99,97,110,99,101,108,108,101,100>>

ALLOWED_REQUEST_STATUSES ==
    {StatusNew, StatusInWork, StatusOrdered, StatusReceived, StatusCancelled}

\* the default of ADMIN_TOKEN: "1234567890"
ADMIN_TOKEN == <<49,50,51,52,53,54,55,56,57,48>>

\* int(text) of a form field; None when it raises ValueError
RECURSIVE DigitsValue(_)
DigitsValue(s) ==
    IF s = <<>> THEN 0 ELSE 10 * DigitsValue(SubSeq(s, 1, Len(s) - 1)) + (s[Len(s)] - 48)

\* (an optional integer is a set: {} for None, {n} for n; the text is an
\* optional sign and ASCII digits)
ParseInt(s) ==
    LET signed == s # <<>> /\ s[1] \in {43, 45}
        digits == IF signed THEN Tail(s) ELSE s
    IN  IF digits # <<>> /\ \A i \in 1..Len(digits) : digits[i] \in 48..57
        THEN {(IF signed /\ s[1] = 45 THEN -1 ELSE 1) * DigitsValue(digits)}
        ELSE {}

\* a PartRequest row as add_part_request builds it; a mutant leaves the
\* status column without a value
PartRequestNoStatus(id, part_number, name, catalog_id, created_at) ==
    [id |-> id, part_number |-> part_number, name |-> name,
     catalog_id |-> catalog_id, status |-> <<>>, created_at |-> created_at]

PartRequest(id, part_number, name, catalog_id, created_at) ==
    [id |-> id, part_number |-> part_number, name |-> name,
     catalog_id |-> catalog_id, status |-> StatusNew, created_at |-> created_at]

\* the id the table gives the next row: one more than the largest rowid
NextRequestId(reqs) ==
    IF reqs = <<>> THEN 1
    ELSE 1 + (CHOOSE m \in {reqs[i].id : i \in 1..Len(reqs)} :
                 \A i \in 1..Len(reqs) : reqs[i].id <= m)

\* datetime.utcnow() at the insert: the time of the latest row, or a later
\* one (the clock reads 0 at the first insert)
LastCreated(reqs) == IF reqs = <<>> THEN 0 ELSE reqs[Len(reqs)].created_at

Ticks(reqs) == IF reqs = <<>> THEN {0} ELSE {0, 1}

\* add_part_request(...): the table after the insert, and the id returned
add_part_request(reqs, part_number, name, catalog_id, now) ==
    LET req == PartRequest(NextRequestId(reqs), part_number, name, catalog_id, now)
    IN  [part_requests |-> Append(reqs, req), id |-> req.id]

\* ORDER BY created_at DESC, id DESC (a mutant sorts the other way round)
Older(a, b) ==
    \/ a.created_at < b.created_at
    \/ a.created_at = b.created_at /\ a.id < b.id

Newer(a, b) ==
    \/ a.created_at > b.created_at
    \/ a.created_at = b.created_at /\ a.id > b.id

RECURSIVE Ordered(_)
Ordered(S) ==
    IF S = {} THEN <<>>
    ELSE LET top == CHOOSE r \in S : \A q \in S : q = r \/ Newer(r, q)
         IN  <<top>> \o Ordered(S \ {top})

\* get_part_requests(status)
get_part_requests(reqs, status) ==
    LET all == {reqs[i] : i \in 1..Len(reqs)}
    IN  Ordered(IF Truthy(status) THEN {r \in all : r.status = status} ELSE all)

\* session.get(PartRequest, request_id)
GetRequest(reqs, request_id) == {i \in 1..Len(reqs) : reqs[i].id = request_id}

\* update_request_status(request_id, new_status)
update_request_status(reqs, request_id, new_status) ==
    IF GetRequest(reqs, request_id) = {}
    THEN [ok |-> FALSE, part_requests |-> reqs]
    ELSE [ok |-> TRUE,
          part_requests |-> [i \in 1..Len(reqs) |->
              IF reqs[i].id = request_id
              THEN [reqs[i] EXCEPT !.status = new_status] ELSE reqs[i]]]

\* the form of POST /request/new: part_number, name, catalog_id as typed
RequestForm(part_number, name, catalog_id) ==
    [part_number |-> part_number, name |-> name, catalog_id |-> catalog_id]

\* the forms submitted: everything empty; a blank part number with catalog
\* id "1"; part number " p1 " with catalog id "1"; name "n" with catalog
\* id "x"
RequestForms ==
    { RequestForm(<<>>, <<>>, <<>>),
      RequestForm(<<32>>, <<>>, <<49>>),
      RequestForm(<<32,112,49,32>>, <<>>, <<49>>),
      RequestForm(<<>>, <<110>>, <<120>>) }

\* the status texts sent: "", "new", " in_work ", "bogus"
StatusTexts ==
    { <<>>, StatusNew, <<32>> \o StatusInWork \o <<32>>, <<98,111,103,117,115>> }

\* the status texts of the status form: those, and each allowed status
NewStatusTexts == StatusTexts \cup ALLOWED_REQUEST_STATUSES

\* the tokens typed into the login form: the token between blanks, "123",
\* nothing
TokenTexts == { <<32>> \o ADMIN_TOKEN \o <<32>>, <<49,50,51>>, <<>> }

\* the request ids named in /requests/<id>/status: the rows and an unused one
RequestIds == 1..(MaxReq + 1)

\* `if not part_number and not name` (a mutant lets every form through)
BothEmptyNever(part_number, name) == FALSE

BothEmpty(part_number, name) == part_number = <<>> /\ name = <<>>

\* `new_status not in ALLOWED_REQUEST_STATUSES` (a mutant allows any text)
StatusAllowedAny(new_status) == TRUE

\* (another mutant takes the status of a fresh request only)
StatusAllowedNewOnly(new_status) == new_status = StatusNew

StatusAllowed(new_status) == new_status \in ALLOWED_REQUEST_STATUSES

\* new_request(), POST: the fields are stripped; with part number and name
\* both empty the form is shown again with an error, else the row is added
NewRequest ==
    /\ Len(part_requests) < MaxReq
    /\ \E form \in RequestForms, tick \in Ticks(part_requests) :
          LET part_number == Strip(OrEmpty(form.part_number))
              name == Strip(OrEmpty(form.name))
              catalog_id_raw == Strip(OrEmpty(form.catalog_id))
              catalog_id == IF Truthy(catalog_id_raw)
                            THEN ParseInt(catalog_id_raw) ELSE {}
              r == add_part_request(part_requests, OrNone(part_number),
                                    OrNone(name), catalog_id,
                                    LastCreated(part_requests) + tick)
          IN  IF BothEmpty(part_number, name)
              THEN /\ part_requests' = part_requests
                   /\ resp' = [op |-> "new_request", part_number |-> part_number,
                               name |-> name, flash |-> "error",
                               page |-> "request_new"]
              ELSE /\ part_requests' = r.part_requests
                   /\ resp' = [op |-> "new_request", part_number |-> part_number,
                               name |-> name, flash |-> "success",
                               page |-> "index", req_id |-> r.id]
    /\ UNCHANGED <<catalogs, search_logs, saved_queries, pc, trace, session, logVars>>

\* requests_admin(), GET /requests?status=...
RequestsAdmin(b) ==
    /\ \E arg \in StatusTexts :
          LET stripped == Strip(OrEmpty(arg))
              status == IF Truthy(stripped) /\ stripped \notin ALLOWED_REQUEST_STATUSES
                        THEN <<>> ELSE stripped
          IN  resp' = IF ~session[b].is_admin
                      THEN [op |-> "requests_admin", browser |-> b,
                            page |-> "admin_login"]
                      ELSE [op |-> "requests_admin", browser |-> b,
                            page |-> "requests", status_arg |-> stripped,
                            current_status |-> status,
                            requests |-> get_part_requests(part_requests,
                                                           OrNone(status))]
    /\ UNCHANGED <<catalogs, search_logs, saved_queries, pc, trace, requestVars, logVars>>

\* request_change_status(request_id), POST /requests/<id>/status
RequestChangeStatus(b) ==
    /\ \E request_id \in RequestIds, text \in NewStatusTexts :
          LET new_status == Strip(OrEmpty(text))
              r == update_request_status(part_requests, request_id, new_status)
          IN  IF ~session[b].is_admin
              THEN /\ part_requests' = part_requests
                   /\ resp' = [op |-> "request_change_status", browser |-> b,
                               flash |-> "error", message |-> "no_rights",
                               page |-> "admin_logs"]
              ELSE IF ~StatusAllowed(new_status)
              THEN /\ part_requests' = part_requests
                   /\ resp' = [op |-> "request_change_status", browser |-> b,
                               request_id |-> request_id, new_status |-> new_status,
                               flash |-> "error", message |-> "bad_status",
                               page |-> "requests_admin"]
              ELSE /\ part_requests' = r.part_requests
                   /\ resp' = [op |-> "request_change_status", browser |-> b,
                               request_id |-> request_id, new_status |-> new_status,
                               flash |-> IF r.ok THEN "success" ELSE "error",
                               message |-> IF r.ok THEN "changed" ELSE "not_found",
                               page |-> "requests_admin"]
    /\ UNCHANGED <<catalogs, search_logs, saved_queries, pc, trace, session, logVars>>

\* admin_logs(), POST /admin/logs: the login form
AdminLogin(b) ==
    /\ \E text \in TokenTexts :
          LET token == Strip(OrEmpty(text))
          IN  /\ session' = IF token = ADMIN_TOKEN
                            THEN [session EXCEPT ![b].is_admin = TRUE]
                            ELSE session
              /\ resp' = [op |-> "admin_login", browser |-> b, token |-> token,
                          flash |-> IF token = ADMIN_TOKEN THEN "none" ELSE "error",
                          page |-> "admin_logs"]
    /\ UNCHANGED <<catalogs, search_logs, saved_queries, pc, trace, part_requests, logVars>>

\* admin_logs(), GET /admin/logs: the access log (the latest entries and
\* get_access_log_stats) for an admin session, the login form otherwise
AdminLogs(b) ==
    /\ resp' = IF ~session[b].is_admin
               THEN [op |-> "admin_logs", browser |-> b, page |-> "admin_login"]
               ELSE [op |-> "admin_logs", browser |-> b, page |-> "admin_logs",
                     total_visits |-> Len(access_logs)]
    /\ UNCHANGED <<catalogs, search_logs, saved_queries, pc, trace, requestVars, logVars>>

\* admin_logout(): session.pop("is_admin", None)
AdminLogout(b) ==
    /\ session' = [session EXCEPT ![b].is_admin = FALSE]
    /\ resp' = [op |-> "admin_logout", browser |-> b, page |-> "index"]
    /\ UNCHANGED <<catalogs, search_logs, saved_queries, pc, trace, part_requests, logVars>>

\* SELECT col, count(id) AS cnt ... WHERE col IS NOT NULL GROUP BY col, over
\* the values of the column in the rows (one value per row)
GroupCount(values) ==
    {[value |-> v, cnt |-> Cardinality({i \in DOMAIN values : values[i] = v})]
        : v \in {values[i] : i \in DOMAIN values} \ {None}}

\* ORDER BY cnt DESC LIMIT n: the lists the statement may return (groups of
\* equal count come in either order)
TopLists(groups, n) ==
    LET len == IF Cardinality(groups) < n THEN Cardinality(groups) ELSE n
    IN  {l \in [1..len -> groups] :
            /\ \A i, j \in 1..len : i < j => l[i] # l[j] /\ l[i].cnt >= l[j].cnt
            /\ \A g \in groups :
                  (\A i \in 1..len : l[i] # g) => \A i \in 1..len : l[i].cnt >= g.cnt}

\* the domain column of the catalogs rows, row by row
DomainColumn(cat) == [c \in cat |-> c.domain]

\* the query column of the search log rows
QueryColumn(logs) == [i \in 1..Len(logs) |-> logs[i].query]

\* get_stats(top_limit): the totals, the top queries of the search log and
\* the top domains of the catalogs table; the results it may return
get_stats(cat, logs, top_limit) ==
    {[total_catalogs |-> Cardinality(cat),
      total_favorites |-> Cardinality({c \in cat : c.is_favorite}),
      total_searches |-> Len(logs),
      top_queries |-> tq,
      top_domains |-> td]
        : tq \in TopLists(GroupCount(QueryColumn(logs)), top_limit),
          td \in TopLists(GroupCount(DomainColumn(cat)), top_limit)}

\* get_usage_stats(limit=10) in stats()
StatsLimit == 10

\* stats(), GET /stats: the usage statistics page, rendered for any session
Stats(b) ==
    /\ \E st \in get_stats(catalogs, search_logs, StatsLimit) :
          resp' = [op |-> "stats", browser |-> b, page |-> "stats", stats |-> st]
    /\ UNCHANGED <<catalogs, search_logs, saved_queries, pc, trace, requestVars, logVars>>

InitRequests ==
    /\ catalogs = Refreshed(SubSeq(SheetOrder, 1, MaxCat))
    /\ InitRest

NextRequests ==
    \/ NewRequest
    \/ \E b \in Browsers :
          \/ RequestsAdmin(b)
          \/ /\ RequestChangeStatus(b)
             /\ resp'.message # "no_rights"
                   => \E text \in StatusTexts : resp'.new_status = Strip(text)
          \/ AdminLogin(b)
          \/ AdminLogs(b)
          \/ AdminLogout(b)
          \/ Stats(b)

SpecRequests == InitRequests /\ [][NextRequests]_vars

StatusesOf(reqs) == [i \in 1..Len(reqs) |-> reqs[i].status]

\* C11: a status change whose new status is not one of new, in_work, ordered,
\* received, cancelled, or whose id names no stored request (or which is sent
\* without admin rights), reports failure and leaves the status of every
\* stored request as it was.
C11_BadStatusChangeRejected ==
    [][(/\ resp'.op = "request_change_status"
        /\ \/ resp'.message = "no_rights"
           \/ resp'.new_status \notin ALLOWED_REQUEST_STATUSES
           \/ GetRequest(part_requests, resp'.request_id) = {})
        => /\ resp'.flash = "error"
           /\ StatusesOf(part_requests') = StatusesOf(part_requests)]_vars

\* an admin session named an existing request and a text outside the five
\* values, after another request had been moved to a new status
C11_Witness ==
    /\ resp.op = "request_change_status"
    /\ resp.message = "bad_status"
    /\ GetRequest(part_requests, resp.request_id) # {}
    /\ resp.new_status \notin ALLOWED_REQUEST_STATUSES
    /\ \E i \in 1..Len(part_requests) : part_requests[i].status # StatusNew

\* C12: in every reachable state the status of every stored part request is
\* one of new, in_work, ordered, received, cancelled, whatever status texts
\* the status changes were sent with.
C12_StatusAlwaysAllowed ==
    \A i \in 1..Len(part_requests) :
        part_requests[i].status \in ALLOWED_REQUEST_STATUSES

\* two requests are stored, one still new and one moved to in_work, and the
\* last status change named a stored request with the text "bogus"
C12_Witness ==
    /\ \E i, j \in 1..Len(part_requests) :
          /\ part_requests[i].status = StatusNew
          /\ part_requests[j].status = StatusInWork
    /\ resp.op = "request_change_status"
    /\ resp.message = "bad_status"
    /\ resp.new_status = <<98,111,103,117,115>>
    /\ GetRequest(part_requests, resp.request_id) # {}

IdsOf(reqs) == {reqs[i].id : i \in 1..Len(reqs)}

\* C13: a submit whose part number and name are both empty fails with an
\* error and adds no request; a submit with one of them filled in succeeds,
\* returns an id no stored request had, keeps the stored requests, and the
\* full request list then has the request under that id with status new.
C13_SubmitValidatedThenListed ==
    [][resp'.op = "new_request"
        => IF resp'.part_number = <<>> /\ resp'.name = <<>>
           THEN /\ resp'.flash = "error"
                /\ part_requests' = part_requests
           ELSE /\ resp'.flash = "success"
                /\ resp'.req_id \notin IdsOf(part_requests)
                /\ SubSeq(part_requests', 1, Len(part_requests)) = part_requests
                /\ LET listed == get_part_requests(part_requests', None)
                   IN  /\ Len(listed) = Len(part_requests) + 1
                       /\ \E k \in 1..Len(listed) :
                             /\ listed[k].id = resp'.req_id
                             /\ listed[k].status = StatusNew
                             /\ listed[k].part_number = OrNone(resp'.part_number)
                             /\ listed[k].name = OrNone(resp'.name)]_vars

\* a second request was submitted with only a name, after the first one had
\* left status new
C13_Witness ==
    /\ resp.op = "new_request"
    /\ resp.flash = "success"
    /\ resp.part_number = <<>>
    /\ resp.req_id = 2
    /\ part_requests[1].status = StatusInWork

\* the place of the request with this id in the order of submission
PositionOf(reqs, id) == CHOOSE i \in 1..Len(reqs) : reqs[i].id = id

\* the list holds exactly the rows of S, each once
ListsExactly(list, S) ==
    /\ {list[k] : k \in 1..Len(list)} = S
    /\ Len(list) = Cardinality(S)

\* C14: the request list an admin is served is ordered newest first (a
\* request submitted later comes earlier); with a status filter that is one
\* of the five values it holds exactly the requests now in that status, and
\* with any other filter text, as with none, it holds every request.
C14_ListNewestFirstAndFiltered ==
    [][(resp'.op = "requests_admin" /\ resp'.page = "requests")
        => LET list == resp'.requests
               all == {part_requests'[i] : i \in 1..Len(part_requests')}
           IN  /\ \A i, j \in 1..Len(list) :
                     i < j => PositionOf(part_requests', list[i].id)
                                > PositionOf(part_requests', list[j].id)
               /\ IF resp'.status_arg \in ALLOWED_REQUEST_STATUSES
                  THEN ListsExactly(list, {r \in all : r.status = resp'.status_arg})
                  ELSE ListsExactly(list, all)]_vars

\* the list was asked for with the filter "bogus" while two requests
\* submitted at the same clock reading were stored, the older one in_work
C14_Witness ==
    /\ resp.op = "requests_admin"
    /\ resp.page = "requests"
    /\ resp.status_arg = <<98,111,103,117,115>>
    /\ Len(part_requests) = 2
    /\ part_requests[1].created_at = part_requests[2].created_at
    /\ part_requests[1].status = StatusInWork
    /\ part_requests[2].status = StatusNew
    /\ Len(resp.requests) = 2

\* the operation of this step was performed or served for a session: a
\* status was changed, or the request list, the access log view or the
\* usage statistics were rendered
GuardedServed(r) ==
    \/ r.op = "request_change_status" /\ r.message = "changed"
    \/ r.op = "requests_admin" /\ r.page = "requests"
    \/ r.op = "admin_logs" /\ r.page = "admin_logs"
    \/ r.op = "stats" /\ r.page = "stats"

\* C15 (as claimed): a status change is performed, and the request list and
\* the analytics views (the access log view, the usage statistics) are
\* served, only for a session that holds admin privilege; a session gains
\* the privilege only by a login with the admin token and has lost it after
\* its logout.
C15_GuardedOnlyForAdmin ==
    [][/\ (resp'.op \in {"request_change_status", "requests_admin",
                         "admin_logs", "stats"} /\ GuardedServed(resp'))
            => session[resp'.browser].is_admin
       /\ \A b \in Browsers :
             /\ (session'[b].is_admin /\ ~session[b].is_admin)
                   => /\ resp'.op = "admin_login"
                      /\ resp'.browser = b
                      /\ resp'.token = ADMIN_TOKEN
             /\ (resp'.op = "admin_logout" /\ resp'.browser = b)
                   => ~session'[b].is_admin]_vars

----------------------------------------------------------------------------
(* Specification SpecRefresh: POST /refresh beside searches *)

\* rows of the sources offered to a refresh:
\*   "G1" | "a" | "t1"      | "b" | http://x.by/u
\*   "G2" | "A" | "t0"      | "b" | http://y.ru/v
\*   "G1" | "a" | "t1"      | "b" | " "                   (blank link)
\*   "G1" | "a" | "t1"      | "b" | (empty cell)
\*   "G1" | "a" | "t1"      | "b" | x.by/u                (no scheme)
\*   "G1" | "a" | "t1"      | "b" | http://avtofiles.com/
\*   "G1" | "a" | "Платный" | "b" | http://x.by/u
RowGood == ExcelRow(<<71,49>>, <<97>>, <<116,49>>, <<98>>,
                    <<104,116,116,112,58,47,47,120,46,98,121,47,117>>)
RowGood2 == ExcelRow(<<71,50>>, <<65>>, <<116,48>>, <<98>>,
                     <<104,116,116,112,58,47,47,121,46,114,117,47,118>>)
RowBlankUrl == [RowGood EXCEPT !.url = <<32>>]
RowEmptyUrl == [RowGood EXCEPT !.url = NaN]
RowNoScheme == [RowGood EXCEPT !.url = <<120,46,98,121,47,117>>]
RowBlocked ==
    [RowGood EXCEPT !.url = <<104,116,116,112,58,47,47,97,118,116,111,102,
                              105,108,101,115,46,99,111,109,47>>]
RowPaid == [RowGood EXCEPT !.type = <<1055,1083,1072,1090,1085,1099,1081>>]

\* the columns the import reads ("Группа техники", "Модели", "Тип",
\* "Описание", "Ссылка", "Статус", "Источник"), by the field they fill
Columns == {"group", "models", "type", "description", "url", "status", "source"}

\* `if col not in df.columns: df[col] = None`: the rows of a sheet that lacks
\* the columns `missing`
WithoutColumns(rows, missing) ==
    [i \in 1..Len(rows) |->
        [col \in Columns |-> IF col \in missing THEN None ELSE rows[i][col]]]

\* a source: the Excel file is missing, unreadable, or a sheet
Sheet(rows, missing) ==
    [kind |-> "sheet", missing |-> missing, rows |-> WithoutColumns(rows, missing)]

NoFile == [kind |-> "missing", missing |-> {}, rows |-> <<>>]

BadFile == [kind |-> "malformed", missing |-> {}, rows |-> <<>>]

\* the sources tried; "status" and "source" are columns every sheet here
\* lacks
Sources ==
    { NoFile, BadFile,
      Sheet(<<RowGood, RowGood2>>, {"status", "source"}),
      Sheet(<<RowGood2>>, {"status", "source"}),
      Sheet(<<RowBlankUrl>>, {"status", "source"}),
      Sheet(<<RowGood, RowEmptyUrl>>, {"status", "source"}),
      Sheet(<<RowNoScheme, RowBlocked>>, {"status", "source"}),
      Sheet(<<RowPaid>>, {"status", "source"}),
      Sheet(<<RowGood, RowGood2>>, {"description", "status", "source"}),
      Sheet(<<RowGood>>, {"url", "status", "source"}) }

\* the catalogs table as the connections see it: `committed` is what every
\* other connection reads, `work` what the transaction of the writer has made
\* of it.  session.query(Catalog).delete() inside the transaction (a mutant
\* commits the delete at once)
TxDeleteAutocommit(db) == [committed |-> {}, work |-> {}]

\* (another mutant deletes no row)
TxDeleteNothing(db) == db

TxDelete(db) == [committed |-> db.committed, work |-> {}]

\* session.bulk_save_objects(records)
TxInsert(db, records) == [committed |-> db.committed, work |-> db.work \cup records]

\* session.commit()
TxCommit(db) == [committed |-> db.work, work |-> db.work]

\* a connection is inside a write transaction on the database file
Writing(w) == pc[w].at \in {"deleted", "inserted"}

\* refresh(), first part: the token test and _load_excel_catalogs(); a
\* missing or unreadable file raises, and the handler flashes the error.
\* For a sheet the records are built; nothing is written yet.
RefreshLoad(w) ==
    /\ pc[w].at = "idle"
    /\ \E text \in TokenTexts, src \in Sources :
          IF Strip(OrEmpty(text)) # ADMIN_TOKEN
          THEN /\ resp' = [op |-> "refresh", flash |-> "error",
                           message |-> "bad_token", source |-> src]
               /\ pc' = pc
          ELSE IF src.kind # "sheet"
          THEN /\ resp' = [op |-> "refresh", flash |-> "error",
                           message |-> src.kind, source |-> src]
               /\ pc' = pc
          ELSE /\ resp' = resp
               /\ pc' = [pc EXCEPT ![w] = [at |-> "sheet", source |-> src,
                                           records |-> Refreshed(src.rows)]]
    /\ UNCHANGED <<catalogs, search_logs, saved_queries, trace, requestVars, logVars>>

\* refresh_catalogs_from_excel, the transaction: DELETE FROM catalogs (the
\* database file admits one writing connection at a time)
RefreshDelete(w) ==
    /\ pc[w].at = "sheet"
    /\ \A v \in Workers : ~Writing(v)
    /\ LET db == TxDelete([committed |-> catalogs, work |-> catalogs])
       IN  /\ catalogs' = db.committed
           /\ pc' = [pc EXCEPT ![w] = [at |-> "deleted", source |-> pc[w].source,
                                       records |-> pc[w].records,
                                       before |-> catalogs, work |-> db.work]]
    /\ UNCHANGED <<search_logs, saved_queries, trace, resp, requestVars, logVars>>

\* the bulk INSERT of the records
RefreshInsert(w) ==
    /\ pc[w].at = "deleted"
    /\ LET db == TxInsert([committed |-> catalogs, work |-> pc[w].work],
                          pc[w].records)
       IN  /\ catalogs' = db.committed
           /\ pc' = [pc EXCEPT ![w].at = "inserted", ![w].work = db.work]
    /\ UNCHANGED <<search_logs, saved_queries, trace, resp, requestVars, logVars>>

\* session.commit(), and the end of refresh(): the count is flashed
RefreshCommit(w) ==
    /\ pc[w].at = "inserted"
    /\ LET db == TxCommit([committed |-> catalogs, work |-> pc[w].work])
       IN  /\ catalogs' = db.committed
           /\ resp' = [op |-> "refresh", flash |-> "success", message |-> "count",
                       source |-> pc[w].source,
                       count |-> Cardinality(pc[w].records),
                       before |-> pc[w].before]
    /\ pc' = [pc EXCEPT ![w] = [at |-> "idle"]]
    /\ UNCHANGED <<search_logs, saved_queries, trace, requestVars, logVars>>

\* a search of another request: search_catalogs with no filter set reads the
\* whole table as its connection sees it
SearchAll(w) ==
    /\ pc[w].at = "idle"
    /\ \E r \in search_catalogs(catalogs, NoFilters) :
          resp' = [op |-> "search_catalogs", filters |-> NoFilters, records |-> r,
                   during |-> {[before |-> pc[v].before, records |-> pc[v].records]
                               : v \in {u \in Workers : Writing(u)}}]
    /\ UNCHANGED <<catalogs, search_logs, saved_queries, pc, trace, requestVars, logVars>>

\* the state after start-up: the import from the sheet went through, or the
\* Excel file was not there and the table stayed empty
InitRefresh ==
    /\ catalogs \in {Refreshed(SubSeq(SheetOrder, 1, MaxCat)), {}}
    /\ InitRest

NextRefresh ==
    \E w \in Workers :
        \/ RefreshLoad(w)
        \/ RefreshDelete(w)
        \/ RefreshInsert(w)
        \/ RefreshCommit(w)
        \/ SearchAll(w)

SpecRefresh == InitRefresh /\ [][NextRefresh]_vars

\* C16 (as claimed): a search that runs while a refresh is between its
\* delete and its commit sees the whole table as it was before the refresh
\* or the whole new set of rows, and it sees no rows only if the new source
\* had no row with a link.
C16_SearchSeesOldOrNewNeverEmpty ==
    [][(resp'.op = "search_catalogs" /\ resp'.during # {})
        => \A t \in resp'.during :
              /\ Range(resp'.records) \in {t.before, t.records}
              /\ Len(resp'.records) = Cardinality(Range(resp'.records))
              /\ resp'.records = <<>> => t.records = {}]_vars

\* C16 (amended): a search that runs while a refresh is between its delete
\* and its commit sees the whole table as it was before the refresh or the
\* whole new set of rows; it sees no rows only if the table was empty before
\* the refresh or the new source had no row with a link.
C16_SearchSeesOldOrNew ==
    [][(resp'.op = "search_catalogs" /\ resp'.during # {})
        => \A t \in resp'.during :
              /\ Range(resp'.records) \in {t.before, t.records}
              /\ Len(resp'.records) = Cardinality(Range(resp'.records))
              /\ resp'.records = <<>> => (t.before = {} \/ t.records = {})]_vars

\* a search ran after the delete of a refresh that replaces a non-empty
\* table by other rows, and returned the rows of before
C16_Witness ==
    /\ resp.op = "search_catalogs"
    /\ \E w \in Workers :
          /\ Writing(w)
          /\ pc[w].before # {}
          /\ pc[w].records # {}
          /\ pc[w].records # pc[w].before
          /\ [before |-> pc[w].before, records |-> pc[w].records] \in resp.during
          /\ Range(resp.records) = pc[w].before

\* load_catalog_df: the columns a source must have ("Группа техники",
\* "Модели", "Тип каталога", "Описание", "Ссылка")
RequiredColumns == {"group", "models", "type", "description", "url"}

\* C17 (as claimed): a refresh whose source is missing, unreadable or lacks
\* one of the columns group, models, catalog type, description, link ends
\* with an error and leaves the catalogs table as it was.
C17_BadSourceLeavesStore ==
    [][(/\ resp'.op = "refresh"
        /\ resp'.message # "bad_token"
        /\ \/ resp'.source.kind \in {"missing", "malformed"}
           \/ resp'.source.missing \cap RequiredColumns # {})
        => /\ resp'.flash = "error"
           /\ catalogs' = catalogs]_vars

\* BLOCKED_DOMAINS
BLOCKED_DOMAINS ==
    { <<109,97,99,104,105,110,101,116,101,99,104,100,111,99,46,99,111,109>>,
      <<115,101,114,118,105,99,101,112,97,114,116,109,97,110,117,97,108,115,
        46,99,111,109>>,
      <<105,110,116,101,114,100,97,108,110,111,98,111,121,46,99,111,109>>,
      <<119,119,119,46,97,118,116,111,122,97,112,99,104,97,115,116,121,46,
        114,117>>,
      <<97,118,116,111,122,97,112,99,104,97,115,116,121,46,114,117>>,
      <<97,118,116,111,102,105,108,101,115,46,99,111,109>>,
      <<119,119,119,46,110,105,118,97,45,99,108,117,98,46,110,101,116>>,
      <<110,105,118,97,45,99,108,117,98,46,110,101,116>> }

\* str.startswith and `in` on text
StartsWith(s, prefix) ==
    Len(s) >= Len(prefix) /\ SubSeq(s, 1, Len(prefix)) = prefix

Contains(s, t) ==
    \E i \in 0..(Len(s) - Len(t)) : SubSeq(s, i + 1, i + Len(t)) = t

\* _is_allowed_row, on the link and the catalog type of a row: the link is
\* not empty, starts with http:// or https://, its host is not blocked, and
\* the type does not contain "платный"
IsAllowedRow(url, type) ==
    /\ url # <<>>
    /\ \/ StartsWith(url, <<104,116,116,112,58,47,47>>)
       \/ StartsWith(url, <<104,116,116,112,115,58,47,47>>)
    /\ PyLower(Netloc(url)) \notin BLOCKED_DOMAINS
    /\ ~Contains(PyLower(type), <<1087,1083,1072,1090,1085,1099,1081>>)

\* C18 (as claimed): every row of the catalogs table has a non-empty link
\* that begins with a scheme, a host that is not in the blocked set, and a
\* catalog type that does not mark it as paid.
C18_StoredEntriesAllowed ==
    \A c \in catalogs : IsAllowedRow(c.url, PyStr(c.type))

----------------------------------------------------------------------------
(* Specification SpecCore: the operations of the site beside the logs *)

MaxWork == 2       \* log rows, stored rows, calls and refreshes of a behaviour

\* record_click(catalog_id): the CatalogClickLog row; committed is FALSE when
\* the store refuses the write (a mutant keeps only the newest row)
record_click_latest(logs, catalog_id, committed) == <<[catalog_id |-> catalog_id]>>

record_click(logs, catalog_id, committed) ==
    IF committed THEN Append(logs, [catalog_id |-> catalog_id]) ELSE logs

\* open_catalog(catalog_id), GET /open/<id>
OpenCatalog ==
    /\ Len(click_logs) < MaxLog
    /\ \E catalog_id \in CatalogIds, committed \in BOOLEAN :
          LET found == GetCatalog(catalogs, catalog_id)
          IN  IF found = {}
              THEN /\ click_logs' = click_logs
                   /\ resp' = [op |-> "open_catalog", catalog_id |-> catalog_id,
                               found |-> FALSE, flash |-> "error",
                               status |-> 302, location |-> <<47>>,
                               click_committed |-> FALSE]
              ELSE LET rec == CHOOSE c \in found : TRUE
                   IN  /\ click_logs' = record_click(click_logs, catalog_id, committed)
                       /\ resp' = IF Propagates(~committed)
                                  THEN [op |-> "open_catalog",
                                        catalog_id |-> catalog_id, found |-> TRUE,
                                        flash |-> "none", status |-> 500,
                                        location |-> <<>>,
                                        click_committed |-> committed]
                                  ELSE [op |-> "open_catalog",
                                        catalog_id |-> catalog_id, found |-> TRUE,
                                        flash |-> "none", status |-> 302,
                                        location |-> rec.url,
                                        click_committed |-> committed]
    /\ UNCHANGED <<catalogs, search_logs, saved_queries, pc, trace, requestVars, access_logs>>

\* the requests whose end the after_request hook sees: path, method and the
\* response of the view:  GET / (200), GET /open/1 (302), GET /static/a.css
\* (200), GET /favicon.ico (404), POST /refresh (302)
Request(path, method, status) == [path |-> path, method |-> method, status |-> status]

Requests ==
    { Request(<<47>>, "GET", 200),
      Request(<<47,111,112,101,110,47,49>>, "GET", 302),
      Request(<<47,115,116,97,116,105,99,47,97,46,99,115,115>>, "GET", 200),
      Request(<<47,102,97,118,105,99,111,110,46,105,99,111>>, "GET", 404),
      Request(<<47,114,101,102,114,101,115,104>>, "POST", 302) }

\* the client_id cookie a browser holds at its first request: none, or "c1"
\* from an earlier visit
ClientCookies == { <<>>, <<99,49>> }

\* the client identifiers of the access log and of the browsers
KnownClientIds(logs, jars) ==
    ({logs[i].client_id : i \in 1..Len(logs)}
        \cup {jars[b].client_id : b \in DOMAIN jars}) \ {<<>>}

\* uuid.uuid4().hex: "u1", "u2", ... stand for identifiers not seen before
NewClientId(logs, jars) == <<117, 49 + Cardinality(KnownClientIds(logs, jars))>>

\* `if not client_id: client_id = uuid.uuid4().hex`
ClientId(cookie, fresh) == IF Truthy(cookie) THEN cookie ELSE fresh

\* request.path.startswith("/static") or request.path.startswith("/favicon")
IsStaticPath(path) ==
    \/ StartsWith(path, <<47,115,116,97,116,105,99>>)
    \/ StartsWith(path, <<47,102,97,118,105,99,111,110>>)

\* re.match(r"^/open/(\d+)", path) and int(m.group(1)): the id of an "open"
\* path, as an optional integer
RECURSIVE LeadingDigits(_)
LeadingDigits(s) ==
    IF s # <<>> /\ Head(s) \in 48..57 THEN <<Head(s)>> \o LeadingDigits(Tail(s))
    ELSE <<>>

OpenPathId(path) ==
    LET prefix == <<47,111,112,101,110,47>>
        digits == IF StartsWith(path, prefix)
                  THEN LeadingDigits(SubSeq(path, Len(prefix) + 1, Len(path)))
                  ELSE <<>>
    IN  IF digits = <<>> THEN {} ELSE {DigitsValue(digits)}

\* add_access_log(...): the AccessLog row; ip is the address of the browser.
\* The catalog id is taken and not stored (the table has no column for it).
add_access_log(logs, path, method, ip, client_id, catalog_id, committed) ==
    IF committed
    THEN Append(logs, [path |-> path, method |-> method, ip |-> ip,
                       client_id |-> client_id])
    ELSE logs

\* assign_client_id() before and log_request(response) after the view of a
\* request of browser b: for a path that is not static the access log row is
\* written and then, for a client without cookie, the new client_id cookie
\* is set; an exception of the write skips the cookie and is printed.  The
\* response is returned, and the browser keeps the cookie it is sent.
LogRequest(b) ==
    /\ Len(access_logs) < MaxLog
    /\ \E req \in Requests, committed \in BOOLEAN :
          LET static == IsStaticPath(req.path)
              cookie == session[b].client_id
              is_new == ~static /\ ~Truthy(cookie)
              client_id == IF static THEN <<>>
                           ELSE ClientId(cookie, NewClientId(access_logs, session))
              raised == ~static /\ ~committed
              set_cookie == IF is_new /\ ~raised /\ ~Propagates(raised)
                            THEN client_id ELSE <<>>
          IN  /\ access_logs' = IF static THEN access_logs
                                ELSE add_access_log(access_logs, req.path,
                                                    req.method, b, client_id,
                                                    OpenPathId(req.path), committed)
              /\ session' = IF set_cookie = <<>> THEN session
                            ELSE [session EXCEPT ![b].client_id = set_cookie]
              /\ resp' = [op |-> "log_request", browser |-> b, request |-> req,
                          cookie |-> cookie, log_failed |-> raised,
                          status |-> IF Propagates(raised) THEN 500 ELSE req.status,
                          set_cookie |-> set_cookie]
    /\ UNCHANGED <<catalogs, search_logs, saved_queries, pc, trace, part_requests, click_logs>>

\* what a behaviour has done so far: the rows written, the annotation calls
\* started, a refresh under way
Work ==
    Len(search_logs) + Len(click_logs) + Len(access_logs)
      + Len(saved_queries) + Len(part_requests) + CallsStarted
      + Cardinality({w \in Workers : pc[w].at \in {"sheet", "deleted", "inserted"}})

\* a new request is taken while the behaviour is within its bound; a call
\* under way goes on to its end
CoreStart == Work < MaxWork

InitCore ==
    /\ catalogs = Refreshed(SubSeq(SheetOrder, 1, MaxCat))
    /\ InitRest

\* One request of each kind is sent, by one browser, served by one worker:
\*   GET /?query=+a+            GET /open/<id>        any request of Requests
\*   POST /favorite/1           POST /note/1 " x "    POST /save_query "T", G1
\*   POST /request/new name "n" POST /admin/logs      POST /requests/<id>/status
\*   POST /refresh with a sheet of one row             GET /stats
\* (the status change names request 1, the logged requests are GET)
NextCore ==
    \/ /\ CoreStart
       /\ Index
       /\ resp'.filters = CurrentFilters([NoArgs EXCEPT !.query = <<32,97,32>>])
    \/ CoreStart /\ OpenCatalog
    \/ CoreStart /\ LogRequest("b1") /\ resp'.request.method = "GET"
    \/ CoreStart /\ ToggleGet("w1") /\ trace'[Len(trace')].id = 1
    \/ ToggleCommit("w1")
    \/ ToggleReturn("w1")
    \/ CoreStart /\ EditNote("w1") /\ resp'.id = 1 /\ resp'.note = <<32,120,32>>
    \/ /\ CoreStart
       /\ SaveQuery
       /\ resp'.saved
       /\ resp'.title = <<84>>
       /\ resp'.filters = CurrentFilters([NoArgs EXCEPT !.group = <<71,49>>])
    \/ CoreStart /\ NewRequest /\ resp'.name = <<110>>
    \/ AdminLogin("b1") /\ resp'.token = ADMIN_TOKEN
    \/ /\ RequestChangeStatus("b1")
       /\ resp'.message # "no_rights"
             => /\ resp'.request_id = 1
                /\ \E text \in StatusTexts : resp'.new_status = Strip(text)
    \/ /\ CoreStart
       /\ RefreshLoad("w1")
       /\ pc'["w1"].at = "sheet"
       /\ pc'["w1"].source = Sheet(<<RowGood2>>, {"status", "source"})
    \/ RefreshDelete("w1")
    \/ RefreshInsert("w1")
    \/ RefreshCommit("w1")
    \/ Stats("b1")

SpecCore == InitCore /\ [][NextCore]_vars

\* the arguments index() gives search_catalogs for the filters of a request
SearchArgs(filters) ==
    Filters(OrNone(filters.group), OrNone(filters.model),
            OrNone(filters.catalog_type), OrNone(filters.query),
            OrNone(filters.country), filters.favorites_only)

\* C19: when the write of the search log, of the click log or of the access
\* log fails, the operation ends as it does otherwise: the catalog page is
\* rendered with the records of the search, the open of an entry redirects
\* to the link of the entry, and the response of the view is returned.
C19_LogFailureKeepsOutcome ==
    [][/\ (resp'.op = "index" /\ ~resp'.log_committed)
            => /\ resp'.status = 200
               /\ resp'.records \in search_catalogs(catalogs, SearchArgs(resp'.filters))
       /\ (resp'.op = "open_catalog" /\ resp'.found /\ ~resp'.click_committed)
            => /\ resp'.status = 302
               /\ \E c \in GetCatalog(catalogs, resp'.catalog_id) :
                     resp'.location = c.url
               /\ click_logs' = click_logs
       /\ (resp'.op = "log_request" /\ resp'.log_failed)
            => /\ resp'.status = resp'.request.status
               /\ access_logs' = access_logs]_vars

\* the open of entry 2 redirected to its link although the click row could
\* not be written, after an earlier request had been logged
C19_Witness ==
    /\ resp.op = "open_catalog"
    /\ resp.found
    /\ ~resp.click_committed
    /\ resp.catalog_id = 2
    /\ resp.status = 302
    /\ Len(search_logs) + Len(access_logs) + Len(click_logs) > 0

IsPrefix(s, t) == Len(s) <= Len(t) /\ SubSeq(t, 1, Len(s)) = s

\* C20: no step of the operations (search, open, access logging, toggle,
\* note, template save, submit, status change, login, refresh, statistics)
\* removes or changes a row of the search log, the access log or the click
\* log: each log after the step begins with the log of before.
C20_LogsAppendOnly ==
    [][/\ IsPrefix(search_logs, search_logs')
       /\ IsPrefix(access_logs, access_logs')
       /\ IsPrefix(click_logs, click_logs')]_vars

\* a refresh replaced the catalogs table while a log held a row
C20_Witness ==
    /\ resp.op = "refresh"
    /\ resp.flash = "success"
    /\ resp.before # catalogs
    /\ Len(search_logs) + Len(access_logs) + Len(click_logs) > 0

----------------------------------------------------------------------------
(* Frame of the favourite toggle *)

\* the last step of the history, when the step just taken wrote one
LastEvent == trace[Len(trace)]

\* C21: a step of toggle_favorite(id) changes nothing but the is_favorite
\* flag of the entry with that id: the other fields of that entry and the
\* other entries stay as they were, no entry is added or removed, and for an
\* id that does not exist the call returns not found and no entry changes.
C21_ToggleChangesOnlyTheFlag ==
    [][(Len(trace') = Len(trace) + 1
          /\ trace'[Len(trace')].step \in {"get", "miss", "commit", "return"})
        => LET e == trace'[Len(trace')]
           IN  /\ \A c \in catalogs :
                     IF c.id = e.id
                     THEN \E v \in BOOLEAN : [c EXCEPT !.is_favorite = v] \in catalogs'
                     ELSE c \in catalogs'
               /\ Cardinality(catalogs') = Cardinality(catalogs)
               /\ e.step = "miss"
                     => /\ catalogs' = catalogs
                        /\ GetCatalog(catalogs, e.id) = {}
                        /\ resp'.op = "toggle_favorite" /\ ~resp'.found]_vars

\* the flag of entry 1 was set by a toggle while the entry held a note and
\* another entry was stored
C21_Witness ==
    /\ trace # <<>>
    /\ LastEvent.step = "commit"
    /\ LastEvent.id = 1
    /\ Cardinality(catalogs) = 2
    /\ \E c \in GetCatalog(catalogs, 1) : c.is_favorite /\ c.engineer_note = <<120>>

----------------------------------------------------------------------------
(* Specification SpecStatus: the status changes of an admin *)

InitStatus ==
    /\ catalogs = Refreshed(SubSeq(SheetOrder, 1, MaxCat))
    /\ InitRest

\* requests for a part named "n" are submitted within one tick of the clock,
\* browser b1 logs in and sends the status form with every status text and
\* every request id
NextStatus ==
    \/ /\ NewRequest
       /\ resp'.name = <<110>>
       /\ part_requests'[Len(part_requests')].created_at = 0
    \/ AdminLogin("b1")
    \/ RequestChangeStatus("b1")

SpecStatus == InitStatus /\ [][NextStatus]_vars

\* the table with the status of the request in row i set to t
WithStatus(reqs, i, t) == [reqs EXCEPT ![i].status = t]

\* C22: for every stored request, whatever its status, and every allowed
\* status t (its own and new too), the status change of an admin is served,
\* reports success and leaves the status of the request equal to t, with
\* every other field of it and every other request unchanged.
C22_AnyAllowedStatusFromAny ==
    /\ [](session["b1"].is_admin
            => \A i \in 1..Len(part_requests), t \in ALLOWED_REQUEST_STATUSES :
                  ENABLED (/\ RequestChangeStatus("b1")
                           /\ resp'.message = "changed"
                           /\ resp'.request_id = part_requests[i].id
                           /\ resp'.new_status = t
                           /\ part_requests' = WithStatus(part_requests, i, t)))
    /\ [][(/\ resp'.op = "request_change_status"
           /\ resp'.message # "no_rights"
           /\ resp'.new_status \in ALLOWED_REQUEST_STATUSES
           /\ GetRequest(part_requests, resp'.request_id) # {})
          => /\ resp'.message = "changed"
             /\ resp'.flash = "success"
             /\ \E i \in GetRequest(part_requests, resp'.request_id) :
                   part_requests' = WithStatus(part_requests, i, resp'.new_status)]_vars

\* request 1 was set to received while request 2 was cancelled
C22_Witness ==
    /\ resp.op = "request_change_status"
    /\ resp.message = "changed"
    /\ resp.request_id = 1
    /\ resp.new_status = StatusReceived
    /\ Len(part_requests) = 2
    /\ part_requests[1].status = StatusReceived
    /\ part_requests[2].status = StatusCancelled

----------------------------------------------------------------------------
(* Specification SpecLinks: requests and annotations across refreshes *)

\* the sheets of the refreshes: the first entry again with another one, a
\* single other entry, a sheet without a link
LinkSources ==
    { Sheet(<<RowGood, RowGood2>>, {"status", "source"}),
      Sheet(<<RowGood2>>, {"status", "source"}),
      Sheet(<<RowBlankUrl>>, {"status", "source"}) }

InitLinks ==
    /\ catalogs = Refreshed(SubSeq(SheetOrder, 1, MaxCat))
    /\ InitRest

\* One worker serves: POST /request/new for part "p1" of entry 1, the toggle
\* and the note "x" on entry 1, GET /open/<id>, and POST /refresh with the
\* admin token and one of the sheets.  A request is taken while the
\* behaviour is within its bound.
NextLinks ==
    \/ /\ CoreStart
       /\ NewRequest
       /\ resp'.part_number = <<112,49>>
       /\ part_requests'[Len(part_requests')].created_at = 0
    \/ CoreStart /\ ToggleGet("w1") /\ trace'[Len(trace')].id = 1
    \/ ToggleCommit("w1")
    \/ ToggleReturn("w1")
    \/ CoreStart /\ EditNote("w1") /\ resp'.id = 1 /\ resp'.note = <<120>>
    \/ CoreStart /\ OpenCatalog
    \/ /\ CoreStart
       /\ RefreshLoad("w1")
       /\ pc'["w1"].at = "sheet"
       /\ pc'["w1"].source \in LinkSources
    \/ RefreshDelete("w1")
    \/ RefreshInsert("w1")
    \/ RefreshCommit("w1")

SpecLinks == InitLinks /\ [][NextLinks]_vars

\* the links of a table
UrlsOf(cat) == {c.url : c \in cat}

\* C23: when a refresh removes the entry a stored request names by its
\* catalog id (no entry of the new table has its link), the lookup of that
\* id in the new table is a miss.
C23_RemovedEntryLooksUpAsMiss ==
    [][(resp'.op = "refresh" /\ resp'.flash = "success" /\ pc["w1"].at = "inserted")
        => \A i \in 1..Len(part_requests) :
              \A id \in part_requests[i].catalog_id :
                 \A c \in GetCatalog(catalogs, id) :
                    c.url \notin UrlsOf(catalogs')
                       => GetCatalog(catalogs', id) = {}]_vars


\* C24: after every refresh that went through, every entry of the table has
\* is_favorite False and no engineer note, whatever flags and notes the
\* entries had before, also for a link that is in the table before and after.
C24_RefreshClearsFlagsAndNotes ==
    [][(resp'.op = "refresh" /\ resp'.flash = "success" /\ pc["w1"].at = "inserted")
        => \A c \in catalogs' : ~c.is_favorite /\ c.engineer_note = None]_vars

\* a refresh went through whose table before held a favourite entry, and the
\* link of that entry is in the table again
C24_Witness ==
    /\ resp.op = "refresh"
    /\ resp.flash = "success"
    /\ pc["w1"].at = "idle"
    /\ \E b \in resp.before : b.is_favorite /\ b.url \in UrlsOf(catalogs)

----------------------------------------------------------------------------
(* Specification SpecVisits: the requests of browsers that keep their cookies *)

\* browser b1 comes with the cookie of an earlier visit or without one,
\* browser b2 without one
InitVisits ==
    /\ catalogs = Refreshed(SubSeq(SheetOrder, 1, MaxCat))
    /\ search_logs = <<>>
    /\ saved_queries = <<>>
    /\ pc = [w \in Workers |-> [at |-> "idle"]]
    /\ trace = <<>>
    /\ resp = [op |-> "none"]
    /\ part_requests = <<>>
    /\ \E cookie \in ClientCookies :
          session = [b \in Browsers |->
                        [is_admin |-> FALSE,
                         client_id |-> IF b = "b1" THEN cookie ELSE <<>>]]
    /\ access_logs = <<>>
    /\ click_logs = <<>>

NextVisits == \E b \in Browsers : LogRequest(b)

SpecVisits == InitVisits /\ [][NextVisits]_vars

\* every row of a browser carries the identifier the browser holds
RowsCarryHeldId ==
    \A i \in 1..Len(access_logs) :
       access_logs[i].client_id = session[access_logs[i].ip].client_id

\* an identifier is sent to a browser that holds none, on a request that is
\* not static, it is one no browser and no row has, and the browser keeps it
IssuedOnceAndKept ==
    /\ (resp'.op = "log_request" /\ resp'.set_cookie # <<>>)
          => /\ session[resp'.browser].client_id = <<>>
             /\ ~IsStaticPath(resp'.request.path)
             /\ resp'.set_cookie \notin KnownClientIds(access_logs, session)
             /\ session'[resp'.browser].client_id = resp'.set_cookie
    /\ \A b \in Browsers :
          session[b].client_id # <<>> => session'[b].client_id = session[b].client_id

\* the first request of a browser that is not static sends it its identifier
IssuedOnFirstRequest ==
    (/\ resp'.op = "log_request"
     /\ ~IsStaticPath(resp'.request.path)
     /\ resp'.cookie = <<>>)
        => resp'.set_cookie # <<>>

\* C25: over the requests of a browser that keeps its cookies a client
\* identifier is issued at most once, on the first request that is not
\* static, and every access log row of the browser carries that identifier,
\* also when the write of the access log fails during a request.
C25_OneClientIdPerBrowser ==
    /\ []RowsCarryHeldId
    /\ [][IssuedOnceAndKept]_vars
    /\ [][IssuedOnFirstRequest]_vars


\* the row the step appended to the access log
LastRow(logs) == logs[Len(logs)]

\* C26: a request whose path starts with neither /static nor /favicon
\* appends, when the write goes through, exactly one access log row with its
\* path and method, and for a path /open/<id> the row records the id; a
\* request to a static or favicon path appends none.
C26_OneRowPerRequestWithCatalogId ==
    [][resp'.op = "log_request"
        => IF IsStaticPath(resp'.request.path)
           THEN access_logs' = access_logs
           ELSE ~resp'.log_failed
                  => /\ Len(access_logs') = Len(access_logs) + 1
                     /\ SubSeq(access_logs', 1, Len(access_logs)) = access_logs
                     /\ LastRow(access_logs').path = resp'.request.path
                     /\ LastRow(access_logs').method = resp'.request.method
                     /\ OpenPathId(resp'.request.path) # {}
                           => /\ "catalog_id" \in DOMAIN LastRow(access_logs')
                              /\ LastRow(access_logs').catalog_id
                                    = OpenPathId(resp'.request.path)]_vars

----------------------------------------------------------------------------
(* The top lists of the usage statistics *)

\* the rows of a column that hold value v
RowsWith(values, v) == {i \in DOMAIN values : values[i] = v}

\* list is a top-n list of the column: its entries are values of the column
\* with the number of rows that hold them, no value twice, in descending
\* order of count, at most n of them, and no value left out has more rows
\* than one that is listed or is left out while there is room
IsTopList(list, values, n) ==
    LET present == {values[i] : i \in DOMAIN values} \ {None}
        listed == {list[i].value : i \in 1..Len(list)}
    IN  /\ Len(list) <= n
        /\ listed \subseteq present
        /\ \A i \in 1..Len(list) :
              list[i].cnt = Cardinality(RowsWith(values, list[i].value))
        /\ \A i, j \in 1..Len(list) :
              i < j => list[i].value # list[j].value /\ list[i].cnt >= list[j].cnt
        /\ \A v \in present \ listed :
              /\ Len(list) = n
              /\ \A i \in 1..Len(list) :
                    list[i].cnt >= Cardinality(RowsWith(values, v))

\* the domain of the entry each click log row names (None for an id that is
\* not in the table)
ClickDomains ==
    [i \in 1..Len(click_logs) |->
        LET found == GetCatalog(catalogs, click_logs[i].catalog_id)
        IN  IF found = {} THEN None ELSE (CHOOSE c \in found : TRUE).domain]

\* C27: each top list of the usage statistics groups its log table, counts
\* the rows per value and gives at most `limit` values in descending order
\* of count: the top queries from the search log, and the top domains from
\* the clicks recorded per domain (not from the catalog entries per domain).
C27_TopListsCountLogRows ==
    resp.op = "stats"
        => /\ IsTopList(resp.stats.top_queries, QueryColumn(search_logs), StatsLimit)
           /\ IsTopList(resp.stats.top_domains, ClickDomains, StatsLimit)

============================================================================
